---- MODULE Spec2Model ----
(***************************************************************************)
(* State-machine model of the ac-matcher marketplace (src/app.py,          *)
(* src/auth.py, src/models.py, src/ac-matcher/db.py).                      *)
(*                                                                         *)
(* The database tables are the shared state.  FastAPI runs the plain `def` *)
(* handlers in a thread pool, so several requests are in flight at once;   *)
(* each request slot holds the handler's position (pc) and its locals.     *)
(* With pysqlite a SELECT holds no lock once its rows are fetched, so a    *)
(* handler's SELECT and its later INSERT/UPDATE + COMMIT are separate      *)
(* atomic steps, and other requests' commits can fall between them.        *)
(* A handler's reads up to its first write are one step: the only row      *)
(* current_user reads is a users row, and users rows are never updated or  *)
(* deleted, so reading it earlier than the handler's own SELECT gives the  *)
(* same result or the /login redirect the earlier read already gave.       *)
(*                                                                         *)
(* Text values are sequences of chunks so that strip() and lower() are     *)
(* computed, not assumed: <<" ", "A">> is the text " A".                   *)
(***************************************************************************)
EXTENDS Integers, Sequences, FiniteSets, TLC

\* ---------------------------------------------------------------- bounds
NumReq == 2
MaxUsers == 2
MaxJobs == 1
MaxProposals == 1
MaxItemId == 1
PortfolioMaxItemId == 7
PortfolioMaxUsers == 1
DetailMaxUsers == 3
DetailMaxJobs == 1
DetailMaxProposals == 2

Req == 1..NumReq

\* ------------------------------------------------------- program constants
MAX_PORTFOLIO == 6
SEE_OTHER == 303

VARIABLES users, profiles, portfolio, jobs, proposals, req

vars == <<users, profiles, portfolio, jobs, proposals, req>>
db == <<users, profiles, portfolio, jobs, proposals>>

\* ------------------------------------------------------------ text helpers
Whitespace == {" "}

RECURSIVE lstrip(_)
lstrip(s) == IF s # <<>> /\ Head(s) \in Whitespace THEN lstrip(Tail(s)) ELSE s

RECURSIVE rstrip(_)
rstrip(s) ==
    IF s # <<>> /\ s[Len(s)] \in Whitespace THEN rstrip(SubSeq(s, 1, Len(s) - 1)) ELSE s

\* str.strip()
strip(s) == rstrip(lstrip(s))

lower_chunk(c) ==
    CASE c = "A" -> "a"
      [] c = "B" -> "b"
      [] c = "OWNER" -> "owner"
      [] c = "PROVIDER" -> "provider"
      [] OTHER -> c

\* str.lower()
lower(s) == [i \in 1..Len(s) |-> lower_chunk(s[i])]

\* str.startswith(prefix) for a one-chunk prefix
startswith(s, prefix) == s # <<>> /\ Head(s) = prefix

OWNER == <<"owner">>
PROVIDER == <<"provider">>

\* ------------------------------------------------------------ auth.py
\* A cookie is absent, carries a token whose signature does not verify, or
\* carries a token signed by set_session for some user id.
NoCookie == [kind |-> "none", user_id |-> 0]
BadToken == [kind |-> "badsig", user_id |-> 1]

set_session(user_id) == [kind |-> "signed", user_id |-> user_id]

hash_password(password) == <<"pbkdf2", password>>

verify_password(password, password_hash) ==
    IF password_hash = <<>> THEN FALSE ELSE password_hash = <<"pbkdf2", password>>

\* Optional[int]: <<>> is None, <<n>> is the integer n.
get_user_id(cookie) ==
    IF cookie.kind = "none" THEN <<>>
    ELSE IF cookie.kind = "signed" THEN <<cookie.user_id>>
    ELSE <<>>

\* ------------------------------------------------------------ app.py helpers
NoUser == [id |-> 0, role |-> <<>>]

\* Optional[User]: NoUser is None.
current_user(cookie, us) ==
    LET uid == get_user_id(cookie) IN
    IF uid = <<>> \/ uid[1] = 0 THEN NoUser
    ELSE IF uid[1] \in 1..Len(us) THEN [id |-> uid[1], role |-> us[uid[1]].role]
    ELSE NoUser

\* the role left unchecked
Denied_any_role(user, role) == user = NoUser

\* `(not user) or user.role != role`, the first test of every protected handler
Denied(user, role) == user = NoUser \/ user.role # role

\* A response: a RedirectResponse (status_code=303, a location, perhaps a session
\* cookie), a rendered template, or the framework's answer to an exception.
\* `context` is what job_detail hands to its template (user, job, proposals and
\* the keys of provider_badges); it is empty in every other response.
NoContext == [user |-> NoUser, job |-> <<>>, proposals |-> <<>>, provider_badges |-> {}]
NoResp ==
    [kind |-> "none", status |-> 0, location |-> "", set_cookie |-> NoCookie,
     context |-> NoContext]
Redirect(loc) ==
    [kind |-> "redirect", status |-> SEE_OTHER, location |-> loc, set_cookie |-> NoCookie,
     context |-> NoContext]
RedirectWithSession(loc, uid) ==
    [kind |-> "redirect", status |-> SEE_OTHER, location |-> loc,
     set_cookie |-> set_session(uid), context |-> NoContext]
Page(name) ==
    [kind |-> "page", status |-> 0, location |-> name, set_cookie |-> NoCookie,
     context |-> NoContext]
\* templates.TemplateResponse(name, context)
PageWith(name, context) == [Page(name) EXCEPT !.context = context]
\* An exception that escapes the handler: the session is closed (rolled back) and
\* the framework answers with an error instead of the handler's response.
ServerError ==
    [kind |-> "error", status |-> 0, location |-> "", set_cookie |-> NoCookie,
     context |-> NoContext]

\* the form fields of a request (those the tables keep), and register's email_clean
NoForm ==
    [role |-> <<>>, email |-> <<>>, email_clean |-> <<>>, password |-> "", price |-> 0,
     display_name |-> <<>>, image_url |-> <<>>]

\* A worker slot.  While a handler runs, pc is its position and cookie/user/arg/
\* form/local are the request and the handler's locals; when it returns, the slot
\* shows the response next to the request that got it, until the client has it.
Idle ==
    [route |-> "", pc |-> "idle", cookie |-> NoCookie, user |-> NoUser, arg |-> 0,
     form |-> NoForm, local |-> 0, resp |-> NoResp, commits |-> 0]

\* the handler returns resp
Done(q, resp) == [q EXCEPT !.pc = "done", !.resp = resp]

\* a worker that is not inside a handler takes the next request
Free(q) == q.pc = "idle"

\* a request enters its handler with the locals the first lines compute
Arrive(route, cookie, user, arg, form) ==
    [Idle EXCEPT !.route = route, !.pc = "run", !.cookie = cookie, !.user = user,
                 !.arg = arg, !.form = form]

\* ------------------------------------------------------------ inputs
Cookies == {NoCookie, BadToken} \cup {set_session(u) : u \in 0..(MaxUsers + 1)}
RawRoles == {<<"owner">>, <<" ", "PROVIDER">>, <<"admin">>}
RawEmails == {<<"a">>, <<" ", "A">>, <<"b">>}
Passwords == {"p"}
LoginPasswords == {"p", "q"}
Prices == {0 - 5, 10}
DisplayNames == {<<" ", "n">>}
ImageUrls == {<<"http://", "x">>, <<" ", "https://", "x">>, <<"ftp://", "x">>}

Init ==
    /\ users = <<>>
    /\ profiles = <<>>
    /\ portfolio = {}
    /\ jobs = <<>>
    /\ proposals = <<>>
    /\ req = [r \in Req |-> Idle]

\* ------------------------------------------------------------ table queries
\* select(User).where(User.email == e): the ids of the matching rows
UsersByEmail(us, e) == {i \in 1..Len(us) : us[i].email = e}

\* select(ProviderProfile).where(ProviderProfile.user_id == uid)
ProfilesOf(ps, uid) == {i \in 1..Len(ps) : ps[i].user_id = uid}

\* select(ProviderPortfolio).where(ProviderPortfolio.user_id == uid)
PortfolioOf(pf, uid) == {it \in pf : it.user_id = uid}

Min(S) == CHOOSE x \in S : \A y \in S : x <= y
Max(S) == CHOOSE x \in S : \A y \in S : y <= x

\* SQLite INTEGER PRIMARY KEY without AUTOINCREMENT: the new rowid is one more
\* than the largest rowid in the table (1 for an empty table).
NextItemId(pf) == IF pf = {} THEN 1 ELSE Max({it.id : it \in pf}) + 1

\* requests of a route that are past arrival and have not returned yet
Pending(route) == Cardinality({r \in Req : req[r].route = route /\ req[r].pc \notin {"idle", "done"}})

\* ------------------------------------------------------------ POST /register
\* lines 99-108: normalise, reject a bad role, look the email up
register(r, role_raw, email_raw, password) ==
    LET role == lower(strip(role_raw))
        email_clean == lower(strip(email_raw))
        q == Arrive("register", NoCookie, NoUser, 0,
                    [NoForm EXCEPT !.role = role, !.email = email_raw, !.email_clean = email_clean,
                                  !.password = password])
    IN
    /\ Free(req[r])
    /\ req' = [req EXCEPT ![r] =
          IF role \notin {OWNER, PROVIDER} THEN Done(q, Redirect("/register?err=bad_role"))
          ELSE IF UsersByEmail(users, email_clean) # {}
               THEN Done(q, Redirect("/register?err=email_exists"))
          ELSE [q EXCEPT !.pc = "insert_user"]]
    /\ UNCHANGED db

\* the column declared without unique=True
UserEmailUnique_not_declared(us, e) == TRUE

\* the UNIQUE index of users.email (models.py:27), checked by the INSERT
UserEmailUnique(us, e) == UsersByEmail(us, e) = {}

\* a profile for every new user
NeedsProfile_everyone(u) == TRUE

\* line 123: if u.role == "provider"
NeedsProfile(u) == u.role = PROVIDER

\* lines 110-128: s.add(u); s.commit(); s.refresh(u); an owner is done here
register_insert_user(r) ==
    LET q == req[r]
        uid == Len(users) + 1
        u == [id |-> uid, role |-> q.form.role]
    IN
    /\ q.route = "register" /\ q.pc = "insert_user"
    /\ IF ~UserEmailUnique(users, q.form.email_clean)
       THEN \* IntegrityError escapes the handler
            /\ req' = [req EXCEPT ![r] = Done(q, ServerError)]
            /\ UNCHANGED db
       ELSE /\ users' = Append(users, [role |-> q.form.role, email |-> q.form.email_clean,
                                       password_hash |-> hash_password(q.form.password)])
            /\ req' = [req EXCEPT ![r] =
                  IF NeedsProfile(u)
                  THEN [q EXCEPT !.pc = "prof_select", !.user = u, !.commits = @ + 1]
                  ELSE Done([q EXCEPT !.user = u, !.commits = @ + 1],
                            RedirectWithSession("/", uid))]
            /\ UNCHANGED <<profiles, portfolio, jobs, proposals>>

\* ------------------------------------------------------------ POST /login
login(r, email_raw, password) ==
    LET email_clean == lower(strip(email_raw))
        found == UsersByEmail(users, email_clean)
        q == Arrive("login", NoCookie, NoUser, 0,
                    [NoForm EXCEPT !.email = email_raw, !.email_clean = email_clean,
                                  !.password = password])
    IN
    /\ Free(req[r])
    /\ req' = [req EXCEPT ![r] =
          IF found = {} \/ ~verify_password(password, users[Min(found)].password_hash)
          THEN Done(q, Redirect("/login?err=bad_login"))
          ELSE Done(q, RedirectWithSession("/", Min(found)))]
    /\ UNCHANGED db

\* ------------------------------------------------------------ get_or_create_provider_profile
\* what the caller does with the profile it got back
AfterProfile(q, prof_id) ==
    CASE q.route = "register" -> Done(q, RedirectWithSession("/", q.user.id))
      [] q.route = "me_provider_save" -> [q EXCEPT !.pc = "prof_update", !.local = prof_id]
      [] q.route = "me_provider_page" -> Done(q, Page("me_provider.html"))
      [] q.route = "me_portfolio_page" -> Done(q, Page("me_portfolio.html"))

\* lines 44-46: the SELECT; return the row when there is one, else go on to create it
get_or_create_provider_profile(q, ps) ==
    LET found == ProfilesOf(ps, q.user.id) IN
    IF found # {} THEN AfterProfile(q, Min(found)) ELSE [q EXCEPT !.pc = "prof_insert"]

\* register, line 124: the call after the user row is committed
register_profile(r) ==
    LET q == req[r] IN
    /\ q.route = "register" /\ q.pc = "prof_select"
    /\ req' = [req EXCEPT ![r] = get_or_create_provider_profile(q, profiles)]
    /\ UNCHANGED db

\* the column declared without unique=True
ProfileUserUnique_not_declared(ps, uid) == TRUE

\* the UNIQUE index of provider_profile.user_id (models.py:60), checked by the INSERT
ProfileUserUnique(ps, uid) == ProfilesOf(ps, uid) = {}

\* lines 47-59: s.add(prof); s.commit(); s.refresh(prof)
get_or_create_provider_profile_insert(r) ==
    LET q == req[r] IN
    /\ q.pc = "prof_insert"
    /\ IF ~ProfileUserUnique(profiles, q.user.id)
       THEN \* IntegrityError escapes the handler
            /\ req' = [req EXCEPT ![r] = Done(q, ServerError)]
            /\ UNCHANGED db
       ELSE /\ profiles' = Append(profiles, [user_id |-> q.user.id, display_name |-> <<>>])
            /\ req' = [req EXCEPT ![r] =
                  AfterProfile([q EXCEPT !.commits = @ + 1], Len(profiles) + 1)]
            /\ UNCHANGED <<users, portfolio, jobs, proposals>>

\* ------------------------------------------------------------ /me/provider, GET /me/portfolio
\* lines 204-209
me_provider_page(r, cookie) ==
    LET user == current_user(cookie, users)
        q == Arrive("me_provider_page", cookie, user, 0, NoForm)
    IN
    /\ Free(req[r])
    /\ req' = [req EXCEPT ![r] =
          IF Denied(user, PROVIDER) THEN Done(q, Redirect("/login"))
          ELSE get_or_create_provider_profile(q, profiles)]
    /\ UNCHANGED db

\* lines 266-271; the items it lists afterwards are read only
me_portfolio_page(r, cookie) ==
    LET user == current_user(cookie, users)
        q == Arrive("me_portfolio_page", cookie, user, 0, NoForm)
    IN
    /\ Free(req[r])
    /\ req' = [req EXCEPT ![r] =
          IF Denied(user, PROVIDER) THEN Done(q, Redirect("/login"))
          ELSE get_or_create_provider_profile(q, profiles)]
    /\ UNCHANGED db

\* s[:n]
Truncate(s, n) == SubSeq(s, 1, IF Len(s) < n THEN Len(s) ELSE n)

\* lines 229-244
me_provider_save(r, cookie, display_name) ==
    LET user == current_user(cookie, users)
        q == Arrive("me_provider_save", cookie, user, 0, [NoForm EXCEPT !.display_name = display_name])
    IN
    /\ Free(req[r])
    /\ req' = [req EXCEPT ![r] =
          IF Denied(user, PROVIDER) THEN Done(q, Redirect("/login"))
          ELSE get_or_create_provider_profile(q, profiles)]
    /\ UNCHANGED db

\* lines 245-260: set the fields, s.add(prof), s.commit()
me_provider_save_update(r) ==
    LET q == req[r] IN
    /\ q.route = "me_provider_save" /\ q.pc = "prof_update"
    /\ profiles' = [profiles EXCEPT ![q.local].display_name =
                        Truncate(strip(q.form.display_name), 60)]
    /\ req' = [req EXCEPT ![r] =
          Done([q EXCEPT !.commits = @ + 1], Redirect("/me/provider?saved=1"))]
    /\ UNCHANGED <<users, portfolio, jobs, proposals>>

\* ------------------------------------------------------------ POST /me/portfolio/add
\* the limit tested with > instead of >=
PortfolioFull_off_by_one(n) == n > MAX_PORTFOLIO

\* line 312: len(existing) >= 6
PortfolioFull(n) == n >= MAX_PORTFOLIO

\* lines 302-313: the role check, the URL check, the count of the caller's rows;
\* `local` keeps len(existing)
me_portfolio_add(r, cookie, image_url_raw) ==
    LET user == current_user(cookie, users)
        image_url == strip(image_url_raw)
        existing == PortfolioOf(portfolio, user.id)
        q == Arrive("me_portfolio_add", cookie, user, 0,
                    [NoForm EXCEPT !.image_url = image_url_raw])
    IN
    /\ Free(req[r])
    /\ req' = [req EXCEPT ![r] =
          IF Denied(user, PROVIDER) THEN Done(q, Redirect("/login"))
          ELSE IF ~(startswith(image_url, "http://") \/ startswith(image_url, "https://"))
               THEN Done(q, Redirect("/me/portfolio?err=bad_url"))
          ELSE IF PortfolioFull(Cardinality(existing))
               THEN Done([q EXCEPT !.local = Cardinality(existing)],
                         Redirect("/me/portfolio?err=max6"))
          ELSE [q EXCEPT !.pc = "insert", !.local = Cardinality(existing)]]
    /\ UNCHANGED db

\* lines 315-324: s.add(item); s.commit()
me_portfolio_add_insert(r) ==
    LET q == req[r] IN
    /\ q.route = "me_portfolio_add" /\ q.pc = "insert"
    /\ portfolio' = portfolio \cup {[id |-> NextItemId(portfolio), user_id |-> q.user.id]}
    /\ req' = [req EXCEPT ![r] =
          Done([q EXCEPT !.commits = @ + 1], Redirect("/me/portfolio?added=1"))]
    /\ UNCHANGED <<users, profiles, jobs, proposals>>

\* ------------------------------------------------------------ POST /me/portfolio/{item_id}/delete
\* lines 329-335: the role check, s.get(ProviderPortfolio, item_id), the ownership test
me_portfolio_delete(r, cookie, item_id) ==
    LET user == current_user(cookie, users)
        item == {it \in portfolio : it.id = item_id}
        q == Arrive("me_portfolio_delete", cookie, user, item_id, NoForm)
    IN
    /\ Free(req[r])
    /\ req' = [req EXCEPT ![r] =
          IF Denied(user, PROVIDER) THEN Done(q, Redirect("/login"))
          ELSE IF item # {} /\ (\A it \in item : it.user_id = user.id)
               THEN [q EXCEPT !.pc = "delete"]
          ELSE Done(q, Redirect("/me/portfolio?deleted=1"))]
    /\ UNCHANGED db

\* lines 336-339: s.delete(item); s.commit() emits DELETE ... WHERE id = item_id.
\* A DELETE that matches no row only warns, the commit goes through.
me_portfolio_delete_commit(r) ==
    LET q == req[r] IN
    /\ q.route = "me_portfolio_delete" /\ q.pc = "delete"
    /\ portfolio' = {it \in portfolio : it.id # q.arg}
    /\ req' = [req EXCEPT ![r] =
          Done([q EXCEPT !.commits = @ + 1], Redirect("/me/portfolio?deleted=1"))]
    /\ UNCHANGED <<users, profiles, jobs, proposals>>

\* ------------------------------------------------------------ POST /jobs/post
\* lines 365-367
post_job(r, cookie) ==
    LET user == current_user(cookie, users)
        q == Arrive("post_job", cookie, user, 0, NoForm)
    IN
    /\ Free(req[r])
    /\ req' = [req EXCEPT ![r] =
          IF Denied(user, OWNER) THEN Done(q, Redirect("/login"))
          ELSE [q EXCEPT !.pc = "insert"]]
    /\ UNCHANGED db

\* Job.status has default="open" (models.py:126) and post_job sets no status
JobDefaultStatus == "open"

\* lines 371-388: s.add(j); s.commit()
post_job_insert(r) ==
    LET q == req[r] IN
    /\ q.route = "post_job" /\ q.pc = "insert"
    /\ jobs' = Append(jobs, [owner_id |-> q.user.id, status |-> JobDefaultStatus])
    /\ req' = [req EXCEPT ![r] = Done([q EXCEPT !.commits = @ + 1], Redirect("/dashboard"))]
    /\ UNCHANGED <<users, profiles, portfolio, proposals>>

\* ------------------------------------------------------------ POST /jobs/{job_id}/close
\* the ownership test left out
NotOwnJob_only_missing(js, job_id, user) == job_id \notin 1..Len(js)

\* line 461: (not job) or job.owner_id != user.id
NotOwnJob(js, job_id, user) == job_id \notin 1..Len(js) \/ js[job_id].owner_id # user.id

\* lines 455-462: the role check, s.get(Job, job_id), the ownership test;
\* `local` keeps whether the loaded row was open
close_job(r, cookie, job_id) ==
    LET user == current_user(cookie, users)
        q == Arrive("close_job", cookie, user, job_id, NoForm)
    IN
    /\ Free(req[r])
    /\ req' = [req EXCEPT ![r] =
          IF Denied(user, OWNER) THEN Done(q, Redirect("/login"))
          ELSE IF NotOwnJob(jobs, job_id, user)
               THEN Done(q, Redirect("/jobs"))
          ELSE [q EXCEPT !.pc = "update",
                         !.local = IF jobs[job_id].status = "open" THEN 1 ELSE 0]]
    /\ UNCHANGED db

\* the button toggles the status instead of setting it
close_job_update_toggles(r) ==
    LET q == req[r] IN
    /\ q.route = "close_job" /\ q.pc = "update"
    /\ jobs' = [jobs EXCEPT ![q.arg].status = IF @ = "open" THEN "closed" ELSE "open"]
    /\ req' = [req EXCEPT ![r] = Done([q EXCEPT !.commits = @ + 1], Redirect("/jobs/{job_id}"))]
    /\ UNCHANGED <<users, profiles, portfolio, proposals>>

\* lines 464-468: job.status = "closed"; s.add(job); s.commit().  The unit of work
\* emits an UPDATE only when the value differs from the one it loaded.
close_job_update(r) ==
    LET q == req[r] IN
    /\ q.route = "close_job" /\ q.pc = "update"
    /\ jobs' = [jobs EXCEPT ![q.arg].status = "closed"]
    /\ req' = [req EXCEPT ![r] =
          Done([q EXCEPT !.commits = @ + q.local], Redirect("/jobs/{job_id}"))]
    /\ UNCHANGED <<users, profiles, portfolio, proposals>>

\* ------------------------------------------------------------ POST /jobs/{job_id}/propose
\* the status test left out
JobNotOpen_only_missing(js, job_id) == job_id \notin 1..Len(js)

\* line 487: (not job) or job.status != "open"
JobNotOpen(js, job_id) == job_id \notin 1..Len(js) \/ js[job_id].status # "open"

\* lines 481-488: the role check, s.get(Job, job_id), the status test
propose(r, cookie, job_id, price) ==
    LET user == current_user(cookie, users)
        q == Arrive("propose", cookie, user, job_id, [NoForm EXCEPT !.price = price])
    IN
    /\ Free(req[r])
    /\ req' = [req EXCEPT ![r] =
          IF Denied(user, PROVIDER) THEN Done(q, Redirect("/login"))
          ELSE IF JobNotOpen(jobs, job_id)
               THEN Done(q, Redirect("/jobs"))
          ELSE [q EXCEPT !.pc = "insert"]]
    /\ UNCHANGED db

\* the clamp left out: the submitted price is stored as it came
propose_insert_unclamped(r) ==
    LET q == req[r] IN
    /\ q.route = "propose" /\ q.pc = "insert"
    /\ proposals' = Append(proposals,
          [job_id |-> q.arg, provider_id |-> q.user.id, price |-> q.form.price])
    /\ req' = [req EXCEPT ![r] = Done([q EXCEPT !.commits = @ + 1], Redirect("/dashboard"))]
    /\ UNCHANGED <<users, profiles, portfolio, jobs>>

\* lines 490-501: s.add(p); s.commit()
propose_insert(r) ==
    LET q == req[r] IN
    /\ q.route = "propose" /\ q.pc = "insert"
    /\ proposals' = Append(proposals,
          [job_id |-> q.arg, provider_id |-> q.user.id,
           price |-> IF q.form.price > 0 THEN q.form.price ELSE 0])
    /\ req' = [req EXCEPT ![r] = Done([q EXCEPT !.commits = @ + 1], Redirect("/dashboard"))]
    /\ UNCHANGED <<users, profiles, portfolio, jobs>>

\* ------------------------------------------------------------ GET /jobs/{job_id}
\* every owner sees the proposals of every job
SeesProposals_any_owner(user, job) == user # NoUser /\ user.role = OWNER

\* line 417: user and user.role == "owner" and job.owner_id == user.id
SeesProposals(user, job) == user # NoUser /\ user.role = OWNER /\ job.owner_id = user.id

\* the Job object the session loaded: owner_id never changes, status is as loaded
LoadedJob(js, job_id, was_open) ==
    [id |-> job_id, owner_id |-> js[job_id].owner_id,
     status |-> IF was_open = 1 THEN "open" ELSE "closed"]

\* lines 406-417 and, for a viewer who is not the job's owner, 436-449:
\* current_user, s.get(Job, job_id), the owner test; `local` keeps whether the
\* loaded row was open
job_detail(r, cookie, job_id) ==
    LET user == current_user(cookie, users)
        q == Arrive("job_detail", cookie, user, job_id, NoForm)
        was_open == IF jobs[job_id].status = "open" THEN 1 ELSE 0
    IN
    /\ Free(req[r])
    /\ req' = [req EXCEPT ![r] =
          IF job_id \notin 1..Len(jobs) THEN Done(q, Redirect("/jobs"))
          ELSE IF SeesProposals(user, jobs[job_id])
               THEN [q EXCEPT !.pc = "proposals", !.local = was_open]
          ELSE Done([q EXCEPT !.local = was_open],
                    PageWith("job_detail.html",
                             [user |-> user, job |-> <<LoadedJob(jobs, job_id, was_open)>>,
                              proposals |-> <<>>, provider_badges |-> {}]))]
    /\ UNCHANGED db

Reverse(s) == [i \in 1..Len(s) |-> s[Len(s) + 1 - i]]

\* select(Proposal).where(Proposal.job_id == job_id).order_by(desc(created_at)):
\* the rows of the job, each with its id, the newest first
ProposalsOf(ps, job_id) ==
    LET rows == [i \in 1..Len(ps) |->
                    [id |-> i, job_id |-> ps[i].job_id, provider_id |-> ps[i].provider_id,
                     price |-> ps[i].price]]
        OfJob(p) == p.job_id = job_id
    IN SelectSeq(Reverse(rows), OfJob)

\* lines 418-449: the owner's SELECT of the proposals, then provider_badges with
\* one key for each provider among them
job_detail_proposals(r) ==
    LET q == req[r]
        found == ProposalsOf(proposals, q.arg)
    IN
    /\ q.route = "job_detail" /\ q.pc = "proposals"
    /\ req' = [req EXCEPT ![r] =
          Done(q, PageWith("job_detail.html",
                           [user |-> q.user, job |-> <<LoadedJob(jobs, q.arg, q.local)>>,
                            proposals |-> found,
                            provider_badges |-> {found[i].provider_id : i \in 1..Len(found)}]))]
    /\ UNCHANGED db

\* ------------------------------------------------------------ the system
\* ids a request may name: the rows there are and one that is not there
JobIds == 1..(MaxJobs + 1)
ItemIds == 1..(MaxItemId + 1)

\* the client has the response: the worker is free again
Return(r) ==
    /\ req[r].pc = "done"
    /\ req' = [req EXCEPT ![r] = Idle]
    /\ UNCHANGED db

\* A response goes out as soon as its handler has returned, before anything else
\* happens: Return touches only its own slot, so its place in the order is immaterial.
Quiet == \A r \in Req : req[r].pc # "done"

\* a free worker takes a request once the responses that are due have gone out
Takes(r) == Quiet /\ Free(req[r])

Next ==
    \E r \in Req :
        \/ \E role \in RawRoles, email \in RawEmails, pw \in Passwords :
              /\ Takes(r) /\ Len(users) + Pending("register") < MaxUsers
              /\ register(r, role, email, pw)
        \/ \E email \in RawEmails, pw \in LoginPasswords : Takes(r) /\ login(r, email, pw)
        \/ \E c \in Cookies : Takes(r) /\ me_provider_page(r, c)
        \/ \E c \in Cookies : Takes(r) /\ me_portfolio_page(r, c)
        \/ \E c \in Cookies, dn \in DisplayNames : Takes(r) /\ me_provider_save(r, c, dn)
        \/ \E c \in Cookies, url \in ImageUrls :
              /\ Takes(r) /\ NextItemId(portfolio) + Pending("me_portfolio_add") <= MaxItemId
              /\ me_portfolio_add(r, c, url)
        \/ \E c \in Cookies, id \in ItemIds : Takes(r) /\ me_portfolio_delete(r, c, id)
        \/ \E c \in Cookies :
              /\ Takes(r) /\ Len(jobs) + Pending("post_job") < MaxJobs
              /\ post_job(r, c)
        \/ \E c \in Cookies, id \in JobIds : Takes(r) /\ close_job(r, c, id)
        \/ \E c \in Cookies, id \in JobIds, price \in Prices :
              /\ Takes(r) /\ Len(proposals) + Pending("propose") < MaxProposals
              /\ propose(r, c, id, price)
        \/ Quiet /\ register_insert_user(r)
        \/ Quiet /\ register_profile(r)
        \/ Quiet /\ get_or_create_provider_profile_insert(r)
        \/ Quiet /\ me_provider_save_update(r)
        \/ Quiet /\ me_portfolio_add_insert(r)
        \/ Quiet /\ me_portfolio_delete_commit(r)
        \/ Quiet /\ post_job_insert(r)
        \/ Quiet /\ close_job_update(r)
        \/ Quiet /\ propose_insert(r)
        \/ Return(r)

Spec == Init /\ [][Next]_vars

\* ------------------------------------------------------------ one provider's portfolio
\* The same handlers with a single account and room for seven portfolio rows.
PortfolioItemIds == 1..(PortfolioMaxItemId + 1)

NextPortfolio ==
    \E r \in Req :
        \/ \E role \in RawRoles, email \in RawEmails, pw \in Passwords :
              /\ Takes(r) /\ Len(users) + Pending("register") < PortfolioMaxUsers
              /\ register(r, role, email, pw)
        \/ Quiet /\ register_insert_user(r)
        \/ Quiet /\ register_profile(r)
        \/ Quiet /\ get_or_create_provider_profile_insert(r)
        \/ \E c \in Cookies, url \in ImageUrls :
              /\ Takes(r)
              /\ NextItemId(portfolio) + Pending("me_portfolio_add") <= PortfolioMaxItemId
              /\ me_portfolio_add(r, c, url)
        \/ Quiet /\ me_portfolio_add_insert(r)
        \/ \E c \in Cookies, id \in PortfolioItemIds : Takes(r) /\ me_portfolio_delete(r, c, id)
        \/ Quiet /\ me_portfolio_delete_commit(r)
        \/ Return(r)

SpecPortfolio == Init /\ [][NextPortfolio]_vars

\* ------------------------------------------------------------ a job and its viewers
\* The handlers around a job, with room for three accounts (the job's owner,
\* another owner, a provider) and two proposals.
DetailEmails == {<<"a">>, <<"b">>, <<"c">>}
DetailCookies == {NoCookie, BadToken} \cup {set_session(u) : u \in 1..DetailMaxUsers}
DetailJobIds == 1..(DetailMaxJobs + 1)

NextDetail ==
    \E r \in Req :
        \/ \E role \in RawRoles, email \in DetailEmails, pw \in Passwords :
              /\ Takes(r) /\ Len(users) + Pending("register") < DetailMaxUsers
              /\ register(r, role, email, pw)
        \/ Quiet /\ register_insert_user(r)
        \/ Quiet /\ register_profile(r)
        \/ Quiet /\ get_or_create_provider_profile_insert(r)
        \/ \E c \in DetailCookies :
              /\ Takes(r) /\ Len(jobs) + Pending("post_job") < DetailMaxJobs
              /\ post_job(r, c)
        \/ Quiet /\ post_job_insert(r)
        \/ \E c \in DetailCookies, id \in DetailJobIds : Takes(r) /\ close_job(r, c, id)
        \/ Quiet /\ close_job_update(r)
        \/ \E c \in DetailCookies, id \in DetailJobIds, price \in Prices :
              /\ Takes(r) /\ Len(proposals) + Pending("propose") < DetailMaxProposals
              /\ propose(r, c, id, price)
        \/ Quiet /\ propose_insert(r)
        \/ \E c \in DetailCookies, id \in DetailJobIds : Takes(r) /\ job_detail(r, c, id)
        \/ Quiet /\ job_detail_proposals(r)
        \/ Return(r)

SpecDetail == Init /\ [][NextDetail]_vars

\* ============================================================ properties
\* the cookie is a session of an existing user with this role
HasRole(cookie, role) ==
    /\ cookie.kind = "signed"
    /\ cookie.user_id \in 1..Len(users)
    /\ users[cookie.user_id].role = role

\* in this step worker r takes a request of this route
Arrives(r, route) == req[r].pc = "idle" /\ req'[r].pc # "idle" /\ req'[r].route = route

\* C1: a job's status is always open or closed, a job is created open, no job is
\* ever removed, and a job that is closed is closed in every later state, also
\* when an already closed job is closed again.
C1_StatusOnlyNarrows ==
    [][/\ Len(jobs') >= Len(jobs)
       /\ \A j \in 1..Len(jobs') : jobs'[j].status \in {"open", "closed"}
       /\ \A j \in 1..Len(jobs) : jobs[j].status = "closed" => jobs'[j].status = "closed"
       /\ \A j \in (Len(jobs) + 1)..Len(jobs') : jobs'[j].status = "open"]_vars

\* the owner has closed a job that was closed already, and it is closed
C1_ClosedAgain ==
    \E r \in Req :
        /\ req[r].pc = "done" /\ req[r].route = "close_job"
        /\ req[r].resp = Redirect("/jobs/{job_id}")
        /\ req[r].local = 0
        /\ jobs[req[r].arg].status = "closed"

\* C2: a close request whose caller is not the job's owner (another owner, a
\* provider, nobody) or whose job does not exist returns at once and changes no
\* job; a status changes only in the commit of a close request whose session is
\* that of the owner-role user recorded as the job's owner, and only to closed.
C2_OnlyOwnerCloses ==
    [][/\ \A r \in Req :
             (/\ Arrives(r, "close_job")
              /\ ~(/\ HasRole(req'[r].cookie, OWNER)
                   /\ req'[r].arg \in 1..Len(jobs)
                   /\ jobs[req'[r].arg].owner_id = req'[r].cookie.user_id))
             => (req'[r].pc = "done" /\ req'[r].commits = 0 /\ jobs' = jobs)
       /\ \A j \in 1..Len(jobs) :
             jobs'[j].status # jobs[j].status
             => /\ jobs'[j].status = "closed"
                /\ \E r \in Req :
                      /\ req[r].route = "close_job" /\ req[r].arg = j
                      /\ req'[r].pc = "done"
                      /\ HasRole(req[r].cookie, OWNER)
                      /\ req[r].cookie.user_id = jobs[j].owner_id]_vars

\* another owner tried to close an open job and got the listing, the job is open
C2_OtherOwnerTurnedAway ==
    \E r \in Req :
        /\ req[r].pc = "done" /\ req[r].route = "close_job"
        /\ req[r].arg \in 1..Len(jobs)
        /\ HasRole(req[r].cookie, OWNER)
        /\ req[r].cookie.user_id # jobs[req[r].arg].owner_id
        /\ req[r].resp = Redirect("/jobs")
        /\ jobs[req[r].arg].status = "open"

\* C3: a provider's propose request against a job that is closed, or that does
\* not exist, when the handler looks it up returns the redirect to /jobs at once,
\* commits nothing and leaves jobs and proposals as they were.
C3_ProposeOnClosedRejected ==
    [][\A r \in Req :
          (/\ Arrives(r, "propose")
           /\ HasRole(req'[r].cookie, PROVIDER)
           /\ (req'[r].arg \notin 1..Len(jobs) \/ jobs[req'[r].arg].status = "closed"))
          => /\ req'[r].pc = "done"
             /\ req'[r].resp = Redirect("/jobs")
             /\ req'[r].commits = 0
             /\ jobs' = jobs /\ proposals' = proposals]_vars

\* a provider proposed on a closed job and got the redirect to /jobs
C3_ClosedJobRefused ==
    \E r \in Req :
        /\ req[r].pc = "done" /\ req[r].route = "propose"
        /\ HasRole(req[r].cookie, PROVIDER)
        /\ req[r].arg \in 1..Len(jobs)
        /\ jobs[req[r].arg].status = "closed"
        /\ req[r].resp = Redirect("/jobs")
        /\ proposals = <<>>

\* C4: no proposal row is committed while its job is closed: a propose request
\* that has just committed its row (the response is the next thing to go out)
\* finds its job open.
C4_ProposalOnlyOnOpenJob ==
    \A r \in Req :
        (req[r].pc = "done" /\ req[r].route = "propose" /\ req[r].commits = 1)
        => jobs[req[r].arg].status = "open"

\* C5: no user ever has more than six portfolio rows.
C5_AtMostSixRows ==
    \A u \in 1..Len(users) : Cardinality(PortfolioOf(portfolio, u)) <= 6

\* the image URL passes the handler's test
ValidUrl(url) == startswith(strip(url), "http://") \/ startswith(strip(url), "https://")

\* C6 as stated: an add by a provider who has five rows (the sixth add) with a
\* valid URL is answered with err=max6 and inserts nothing.
C6_SixthAddRejected ==
    \A r \in Req :
        (/\ req[r].route = "me_portfolio_add"
         /\ HasRole(req[r].cookie, PROVIDER)
         /\ ValidUrl(req[r].form.image_url)
         /\ req[r].local = 5)
        => (/\ req[r].pc = "done"
            /\ req[r].resp = Redirect("/me/portfolio?err=max6")
            /\ req[r].commits = 0)

\* C6 as amended: an add by a provider who has six rows (the seventh add) with a
\* valid URL returns the redirect to /me/portfolio?err=max6 at once, commits
\* nothing and leaves every table as it was; with five rows or fewer the handler
\* goes on to insert.
C6_SeventhAddRejected ==
    [][\A r \in Req :
          (/\ Arrives(r, "me_portfolio_add")
           /\ HasRole(req'[r].cookie, PROVIDER)
           /\ ValidUrl(req'[r].form.image_url))
          => LET n == Cardinality(PortfolioOf(portfolio, req'[r].cookie.user_id)) IN
             IF n >= 6
             THEN /\ req'[r].pc = "done"
                  /\ req'[r].resp = Redirect("/me/portfolio?err=max6")
                  /\ req'[r].commits = 0
                  /\ db' = db
             ELSE req'[r].pc = "insert"]_vars

\* a provider with six rows asked for one more and got err=max6; the rows are six
C6_SeventhRefused ==
    \E r \in Req :
        /\ req[r].pc = "done" /\ req[r].route = "me_portfolio_add"
        /\ HasRole(req[r].cookie, PROVIDER)
        /\ ValidUrl(req[r].form.image_url)
        /\ req[r].resp = Redirect("/me/portfolio?err=max6")
        /\ Cardinality(PortfolioOf(portfolio, req[r].cookie.user_id)) = 6

\* C7 as stated: every provider has exactly one profile row in every state.
C7_ExactlyOneProfile ==
    \A u \in 1..Len(users) :
        users[u].role = PROVIDER => Cardinality(ProfilesOf(profiles, u)) = 1

\* the routes that call get_or_create_provider_profile
ProfileRoutes == {"register", "me_provider_page", "me_portfolio_page", "me_provider_save"}

\* C7 as amended: no user has two profile rows, only providers have one, and a
\* provider for whom get_or_create_provider_profile has returned a profile (to
\* register, /me/provider or /me/portfolio) has exactly one; a provider has none
\* only while the register request that committed its user row is still before
\* its second commit.
C7_AtMostOneProfile ==
    /\ \A u \in 1..Len(users) : Cardinality(ProfilesOf(profiles, u)) <= 1
    /\ \A i \in 1..Len(profiles) :
          profiles[i].user_id \in 1..Len(users) /\ users[profiles[i].user_id].role = PROVIDER
    /\ \A r \in Req :
          (/\ req[r].route \in ProfileRoutes
           /\ req[r].user.role = PROVIDER
           /\ req[r].pc \in {"prof_update", "done"}
           /\ req[r].resp.kind # "error")
          => Cardinality(ProfilesOf(profiles, req[r].user.id)) = 1
    /\ \A u \in 1..Len(users) :
          (users[u].role = PROVIDER /\ ProfilesOf(profiles, u) = {})
          => \E r \in Req :
                /\ req[r].route = "register" /\ req[r].user.id = u
                /\ req[r].pc \in {"prof_select", "prof_insert"}

\* two requests raced to create the same provider's profile: the unique index
\* stopped the second, and the provider has one row
C7_RaceStoppedByIndex ==
    \E r \in Req :
        /\ req[r].pc = "done" /\ req[r].route \in ProfileRoutes
        /\ req[r].user.role = PROVIDER
        /\ req[r].resp = ServerError
        /\ Cardinality(ProfilesOf(profiles, req[r].user.id)) = 1

MutatingRoutes ==
    {"post_job", "close_job", "propose", "me_provider_save", "me_portfolio_add",
     "me_portfolio_delete"}

RequiredRole(route) == IF route \in {"post_job", "close_job"} THEN OWNER ELSE PROVIDER

\* C8: a request to a mutating route with no cookie, a cookie that does not
\* verify, a session of a user id that does not exist, or a session of a user
\* whose role is not the route's role returns the redirect to /login at once,
\* commits nothing and leaves every table as it was.
C8_DeniedRedirectsToLogin ==
    [][\A r \in Req :
          (/\ req[r].pc = "idle" /\ req'[r].pc # "idle"
           /\ req'[r].route \in MutatingRoutes
           /\ ~HasRole(req'[r].cookie, RequiredRole(req'[r].route)))
          => /\ req'[r].pc = "done"
             /\ req'[r].resp = Redirect("/login")
             /\ req'[r].commits = 0
             /\ db' = db]_vars

\* a provider asked to close an existing job and was sent to /login
C8_ProviderSentToLogin ==
    \E r \in Req :
        /\ req[r].pc = "done" /\ req[r].route = "close_job"
        /\ HasRole(req[r].cookie, PROVIDER)
        /\ req[r].arg \in 1..Len(jobs)
        /\ req[r].resp = Redirect("/login")
        /\ jobs[req[r].arg].status = "open"

\* C9: a register request with a valid role whose email, trimmed and lower-cased,
\* is the email of a user that exists when the handler looks it up returns the
\* redirect to /register?err=email_exists with no session cookie, commits nothing
\* and leaves every table as it was; and no two user rows have the same email,
\* which is stored trimmed and lower-cased.
C9_DuplicateEmailRejected ==
    [][/\ \A r \in Req :
             (/\ Arrives(r, "register")
              /\ lower(strip(req'[r].form.role)) \in {OWNER, PROVIDER}
              /\ \E u \in 1..Len(users) : users[u].email = lower(strip(req'[r].form.email)))
             => /\ req'[r].pc = "done"
                /\ req'[r].resp = Redirect("/register?err=email_exists")
                /\ req'[r].resp.set_cookie = NoCookie
                /\ req'[r].commits = 0
                /\ db' = db
       /\ \A u1, u2 \in 1..Len(users') :
             /\ users'[u1].email = lower(strip(users'[u1].email))
             /\ (users'[u1].email = users'[u2].email => u1 = u2)]_vars

\* an email that differs from a stored one only in case and blanks was refused
C9_SameEmailRefused ==
    \E r \in Req :
        /\ req[r].pc = "done" /\ req[r].route = "register"
        /\ req[r].resp = Redirect("/register?err=email_exists")
        /\ req[r].form.email # req[r].form.email_clean
        /\ \E u \in 1..Len(users) : users[u].email = req[r].form.email_clean

\* C10 as stated: no request commits more than one transaction.
C10_AtMostOneCommit == \A r \in Req : req[r].commits <= 1

\* C10 as amended: a request commits at most two transactions, and two only in
\* POST /register for a provider (the user row, then the profile row) and in
\* POST /me/provider (the profile row when there was none, then its update);
\* every other request commits at most one.
C10_AtMostTwoCommits ==
    \A r \in Req :
        /\ req[r].commits <= 2
        /\ req[r].commits = 2 =>
              \/ req[r].route = "register" /\ req[r].form.role = PROVIDER
              \/ req[r].route = "me_provider_save"

\* POST /me/provider of a provider without a profile row has committed twice
C10_SaveCommittedTwice ==
    \E r \in Req :
        /\ req[r].pc = "done" /\ req[r].route = "me_provider_save"
        /\ req[r].commits = 2
        /\ req[r].resp = Redirect("/me/provider?saved=1")

\* C11: a proposal is never updated or deleted: in every step each proposal row
\* there is stays, with the same job_id, provider_id and price (also in the step
\* that closes its job); a step that adds rows adds one row, the row of a propose
\* request, whose job_id names an existing job, whose provider_id names an
\* existing user with role provider (the caller), and whose price is the
\* submitted price, or 0 if that is negative.
C11_ProposalNeverChanged ==
    [][/\ Len(proposals') >= Len(proposals)
       /\ \A i \in 1..Len(proposals) : proposals'[i] = proposals[i]
       /\ Len(proposals') > Len(proposals) =>
            /\ Len(proposals') = Len(proposals) + 1
            /\ LET p == proposals'[Len(proposals')] IN
               /\ p.job_id \in 1..Len(jobs)
               /\ p.provider_id \in 1..Len(users)
               /\ users[p.provider_id].role = PROVIDER
               /\ \E r \in Req :
                     /\ req[r].route = "propose" /\ req[r].pc = "insert"
                     /\ req'[r].pc = "done"
                     /\ p.job_id = req[r].arg
                     /\ get_user_id(req[r].cookie) = <<p.provider_id>>
                     /\ p.price = IF req[r].form.price < 0 THEN 0 ELSE req[r].form.price
                     /\ p.price >= 0]_vars

\* C11 witness: a proposal submitted with a negative price is there with price 0,
\* and is still there after its job has been closed.
C11_KeptAfterClose ==
    \E i \in 1..Len(proposals) :
        /\ proposals[i].price = 0
        /\ jobs[proposals[i].job_id].status = "closed"

\* C12: only the owner of a job sees its proposals.  Whenever GET /jobs/{id}
\* answers with the page: if the caller is an authenticated user with role owner
\* whose id is the job's owner_id, the proposals handed to the page are exactly
\* the proposal rows of that job, each once and as stored; for every other
\* caller (anonymous, bad cookie, provider, another owner) the list is empty and
\* the whole response is determined by the caller and the job alone, so it is
\* the same whatever proposals exist.
C12_OnlyOwnerSeesProposals ==
    [][\A r \in Req :
          (/\ req'[r].route = "job_detail"
           /\ req[r].pc # "done" /\ req'[r].pc = "done"
           /\ req'[r].resp.kind = "page") =>
             LET q == req'[r]
                 uid == get_user_id(q.cookie)
                 job == jobs[q.arg]
                 shown == q.resp.context.proposals
                 IsOwner == /\ uid # <<>> /\ uid[1] \in 1..Len(users)
                            /\ users[uid[1]].role = OWNER
                            /\ job.owner_id = uid[1]
             IN
             IF IsOwner
             THEN /\ {shown[i].id : i \in 1..Len(shown)}
                        = {i \in 1..Len(proposals) : proposals[i].job_id = q.arg}
                  /\ \A i, j \in 1..Len(shown) : shown[i].id = shown[j].id => i = j
                  /\ \A i \in 1..Len(shown) :
                        /\ shown[i].job_id = q.arg
                        /\ shown[i].provider_id = proposals[shown[i].id].provider_id
                        /\ shown[i].price = proposals[shown[i].id].price
             ELSE q.resp =
                    PageWith("job_detail.html",
                             [user |-> current_user(q.cookie, users),
                              job |-> <<[id |-> q.arg, owner_id |-> job.owner_id,
                                         status |-> job.status]>>,
                              proposals |-> <<>>, provider_badges |-> {}])]_vars

\* C12 witness: an owner who does not own the job has its page, with no
\* proposals on it, while the job has two proposals.
C12_OtherOwnerSeesNone ==
    \E r \in Req :
        /\ req[r].route = "job_detail" /\ req[r].pc = "done"
        /\ req[r].resp.kind = "page"
        /\ req[r].user # NoUser /\ req[r].user.role = OWNER
        /\ jobs[req[r].arg].owner_id # req[r].user.id
        /\ Cardinality({i \in 1..Len(proposals) : proposals[i].job_id = req[r].arg}) = 2
        /\ req[r].resp.context.proposals = <<>>

\* C13: a provider can delete only their own portfolio items.  Every portfolio
\* row that a step removes is removed by a POST /me/portfolio/{item_id}/delete
\* that names the row's id and whose caller is the row's user_id; the rows of
\* every user other than the caller of the delete are unchanged.
C13_DeletesOnlyOwnItems ==
    [][\A it \in portfolio \ portfolio' :
          \E r \in Req :
              /\ req[r].route = "me_portfolio_delete"
              /\ req[r].pc = "delete" /\ req'[r].pc = "done"
              /\ it.id = req[r].arg
              /\ it.user_id = req[r].user.id]_vars

====
